---- MODULE Spec2Model ----
(***************************************************************************)
(* Formatting targets of src/core/format.hpp: format_target and its        *)
(* subtypes format_to_buffer, format_to_fixed and format_to_fixed_z, over  *)
(* the fmt::detail::buffer<char> they write through.                       *)
(*                                                                         *)
(* A target is a record:                                                   *)
(*   kind        which subtype was constructed                             *)
(*   flags       format_target::flags (FL_FIXED, FL_OVERFLOW bits)         *)
(*   ptr, size, capacity   the fmt buffer's ptr_, size_, capacity_; ptr is *)
(*               the name of the memory region it points at                *)
(*   buffer_size format_to_fixed_base::buffer_size                         *)
(*   user        the caller's region (format_to_fixed_base::buffer_ptr)    *)
(*   discard     format_to_fixed_base::discard                             *)
(*   heap        the storage of the fmt::basic_memory_buffer               *)
(*   wr, oob, invoked, handed   trace of the call in progress: the         *)
(*               <<region, offset>> pairs it stored to, whether a store    *)
(*               fell outside its region, whether the caller's writer was  *)
(*               run, and what it was handed: <<offset, length>> of the    *)
(*               span, or the offsets <<buf, last>>, from the buffer's ptr *)
(***************************************************************************)
EXTENDS Integers, Sequences, FiniteSets, TLC

\* ---------------------------------------------------------------- bounds
MaxCap == 2
MaxLen == 2
MaxOps == 3
InlineSize == 1
MaxNested == 2

\* ------------------------------------------------------ program constants
FL_FIXED == 1
FL_OVERFLOW == 2
DiscardSize == 32

\* ------------------------------------------------------------ byte values
Nul == 0
Bytes == {1, 2}
Fill == 3

Min(a, b) == IF a < b THEN a ELSE b

\* inputs of append: the strings 1 2 1 2 ... of up to MaxLen bytes, and one
\* longer than the caller's region and the discard region together
Strs == {[i \in 1..n |-> 2 - (i % 2)] : n \in 0..MaxLen}
LongStr == [i \in 1..(MaxCap + DiscardSize + 2) |-> 1 + (i % 2)]
\* what the templates handed to format and vformat render to
Rendered == {<<2>>, <<2, 1, 2, 1, 1>>}
\* what the writers handed to the reserve-and-write calls have to store
WriterBytes == {<<>>, <<2>>, <<1, 2>>}
\* the writers handed to append_ptr_last_func: what they have to store, and
\* whether they put a terminator where they stop
PtrWriters == {<<<<>>, TRUE>>, <<<<2>>, FALSE>>, <<<<1, 2>>, TRUE>>}
\* the to_reserve arguments
Reserves == {0, 2}

Blank(n) == [i \in 1..n |-> Fill]

HasFlag(f, b) == (f \div b) % 2 = 1
SetFlag(f, b) == IF HasFlag(f, b) THEN f ELSE f + b
ClearFlag(f, b) == IF HasFlag(f, b) THEN f - b ELSE f

\* ------------------------------------------------------------ memory
Region(t, r) ==
  CASE r = "user" -> t.user
    [] r = "discard" -> t.discard
    [] OTHER -> t.heap

\* memory m with the bytes of s stored from offset off on; a store outside m
\* changes nothing of m
Patch(m, off, s) ==
  [i \in 1..Len(m) |-> IF i > off /\ i <= off + Len(s) THEN s[i - off] ELSE m[i]]

\* copy of s to region + off
PokeSeq(t, r, off, s) ==
  LET logged == [t EXCEPT !.wr = @ \cup {<<r, off + i - 1>> : i \in 1..Len(s)},
                          !.oob = @ \/ (s # <<>> /\ (off < 0 \/ off + Len(s) > Len(Region(t, r))))]
  IN CASE r = "user" -> [logged EXCEPT !.user = Patch(@, off, s)]
       [] r = "discard" -> [logged EXCEPT !.discard = Patch(@, off, s)]
       [] OTHER -> [logged EXCEPT !.heap = Patch(@, off, s)]

\* *(region + off) = c
Poke(t, r, off, c) == PokeSeq(t, r, off, <<c>>)

\* ------------------------------------------------- fmt::detail::buffer<char>
\* fmt::basic_memory_buffer::grow
memory_buffer_grow(t, n) ==
  LET old == t.capacity
      grown == old + (old \div 2)
      new == IF n > grown THEN n ELSE grown
  IN [t EXCEPT !.capacity = new,
               !.heap = SubSeq(t.heap, 1, t.size) \o Blank(new - t.size)]

\* format_to_fixed_base::grow
fixed_grow(t, n) ==
  IF t.size = t.capacity
    THEN [t EXCEPT !.size = 0, !.ptr = "discard", !.capacity = DiscardSize,
                   !.flags = SetFlag(@, FL_OVERFLOW)]
    ELSE t

\* the virtual call buffer::grow
grow(t, n) ==
  IF t.kind \in {"format_to_buffer", "format_buffer"}
    THEN memory_buffer_grow(t, n)
    ELSE fixed_grow(t, n)

try_reserve(t, n) == IF n > t.capacity THEN grow(t, n) ELSE t

try_resize(t, n) ==
  LET r == try_reserve(t, n)
  IN [r EXCEPT !.size = IF n <= r.capacity THEN n ELSE r.capacity]

buffer_push_back(t, c) ==
  LET r == try_reserve(t, t.size + 1)
  IN [Poke(r, r.ptr, r.size, c) EXCEPT !.size = r.size + 1]

RECURSIVE buffer_append(_, _)
buffer_append(t, s) ==
  IF s = <<>> THEN t
  ELSE LET count == Len(s)
           r == try_reserve(t, t.size + count)
           free_cap == r.capacity - r.size
           n == IF free_cap < count THEN free_cap ELSE count
           w == PokeSeq(r, r.ptr, r.size, SubSeq(s, 1, n))
       IN buffer_append([w EXCEPT !.size = r.size + n], SubSeq(s, n + 1, count))

\* fmt::detail::vformat_to, given the bytes the template renders to
vformat_to(t, s) == buffer_append(t, s)

\* ------------------------------------------------------------ format_target
\* faulty variant: has_overflowed() testing FL_FIXED
has_overflowed_fixed_bit(t) == HasFlag(t.flags, FL_FIXED)

has_overflowed(t) == HasFlag(t.flags, FL_OVERFLOW)

\* faulty variant: written() with the overflow test inverted
written_inverted(t) == IF HasFlag(t.flags, FL_OVERFLOW) THEN t.size ELSE t.buffer_size

\* faulty variant: written() reporting the attempted length once overflowed
written_attempted(t) ==
  IF HasFlag(t.flags, FL_OVERFLOW) THEN t.buffer_size + t.size ELSE t.size

written(t) == IF HasFlag(t.flags, FL_OVERFLOW) THEN t.buffer_size ELSE t.size

\* faulty variant: size() without the FL_FIXED branch
size_of_target(t) == t.size

size(t) == IF HasFlag(t.flags, FL_FIXED) THEN written(t) ELSE t.size

\* faulty variant: data() without the FL_FIXED branch
data_of_target(t) == t.ptr

data(t) == IF HasFlag(t.flags, FL_FIXED) THEN "user" ELSE t.ptr

\* a char pointer is <<region, offset>>
begin(t) == <<data(t), 0>>
end(t) == <<data(t), size(t)>>

\* faulty variant: format() with its overflow test inverted
format_inverted(t, s) == IF ~has_overflowed(t) THEN t ELSE vformat_to(t, s)

format(t, s) == IF has_overflowed(t) THEN t ELSE vformat_to(t, s)

vformat(t, s) == IF has_overflowed(t) THEN t ELSE vformat_to(t, s)

\* faulty variant: push_back() resetting FL_OVERFLOW instead of returning on it
push_back_unflag(t, c) ==
  buffer_push_back([t EXCEPT !.flags = ClearFlag(@, FL_OVERFLOW)], c)

push_back(t, c) == IF has_overflowed(t) THEN t ELSE buffer_push_back(t, c)

append(t, s) == IF has_overflowed(t) THEN t ELSE buffer_append(t, s)

\* the writer handed to append_ptr_last_func: stores as much of w as fits
\* before last, optionally a terminator at the position it returns
ptr_last_writer(t, buf, last, w, z) ==
  LET k == Min(Len(w), last - buf)
      a == PokeSeq([t EXCEPT !.invoked = TRUE, !.handed = <<buf, last>>],
                   t.ptr, buf, SubSeq(w, 1, k))
  IN <<IF z THEN Poke(a, t.ptr, buf + k, Nul) ELSE a, buf + k>>

\* the writer handed to append_span_func: stores as much of w as the span holds
span_writer(t, off, len, w) ==
  LET k == Min(Len(w), len)
  IN <<PokeSeq([t EXCEPT !.invoked = TRUE, !.handed = <<off, len>>],
               t.ptr, off, SubSeq(w, 1, k)), k>>

\* faulty variant: last computed as data + capacity
append_ptr_last_func_end(t, to_reserve, w, z) ==
  LET r == try_reserve(t, t.size + to_reserve)
      buf == r.size
      last == r.capacity
  IN IF last > buf
       THEN LET res == ptr_last_writer(r, buf, last, w, z)
            IN try_resize(res[1], res[2])
       ELSE r

append_ptr_last_func(t, to_reserve, w, z) ==
  LET r == try_reserve(t, t.size + to_reserve)
      buf == r.size
      last == r.capacity - 1
  IN IF last > buf
       THEN LET res == ptr_last_writer(r, buf, last, w, z)
            IN try_resize(res[1], res[2])
       ELSE r

append_span_func(t, to_reserve, w) ==
  LET r == try_reserve(t, t.size + to_reserve)
  IN IF r.size = r.capacity
       THEN r
       ELSE LET res == span_writer(r, r.size, r.capacity - r.size, w)
            IN try_resize(res[1], r.size + res[2])

\* format_to_fixed_base::restore_size_impl
restore_size_impl(t, n) ==
  LET b == [t EXCEPT !.ptr = "user", !.capacity = t.buffer_size]
      r == try_resize(b, n)
  IN [r EXCEPT !.flags = ClearFlag(@, FL_OVERFLOW)]

restore_size(t, n) ==
  IF HasFlag(t.flags, FL_FIXED) THEN restore_size_impl(t, n) ELSE try_resize(t, n)

\* format_to_fixed_z::finalise: the target after the call, and the offset
\* from initial_dst of the pointer it returns
\* faulty variant: the terminator stored one byte further
finalise_past(t) ==
  LET w == written(t) + 1
  IN <<Poke(t, "user", w, Nul), w>>

finalise(t) ==
  LET w == written(t)
  IN <<Poke(t, "user", w, Nul), w>>

\* ------------------------------------------------------------ constructors
NewTarget(k, f, p, cap, bs, ulen, hlen) ==
  [kind |-> k, flags |-> f, ptr |-> p, size |-> 0, capacity |-> cap,
   buffer_size |-> bs, user |-> Blank(ulen), discard |-> Blank(DiscardSize),
   heap |-> Blank(hlen), wr |-> {}, oob |-> FALSE, invoked |-> FALSE,
   handed |-> <<>>]

format_to_fixed_base(k, dstlen, sz, f) == NewTarget(k, f, "user", sz, sz, dstlen, 0)

\* format_to_fixed(dst, size): dst has size bytes
format_to_fixed(sz) == format_to_fixed_base("format_to_fixed", sz, sz, FL_FIXED)

\* format_to_fixed_z(dst, last) with ptr, last semantics: last is the last
\* byte of the caller's region, which is last - dst + 1 bytes long
\* faulty variant: capacity taken as last - dst + 1
format_to_fixed_z_whole(lastoff) ==
  format_to_fixed_base("format_to_fixed_z", lastoff + 1, lastoff + 1, FL_FIXED)

format_to_fixed_z(lastoff) ==
  format_to_fixed_base("format_to_fixed_z", lastoff + 1, lastoff, FL_FIXED)

\* format_to_buffer(buffer) over an empty basic_memory_buffer<char, SIZE>
\* faulty variant: constructed with FL_OVERFLOW for flags
format_to_buffer_flagged(SIZE) ==
  NewTarget("format_to_buffer", FL_OVERFLOW, "heap", SIZE, 0, 0, SIZE)

format_to_buffer(SIZE) == NewTarget("format_to_buffer", 0, "heap", SIZE, 0, 0, SIZE)

\* format_buffer(): a format_to_buffer over its own fmt::memory_buffer, whose
\* inline capacity is SIZE
format_buffer(SIZE) == [format_to_buffer(SIZE) EXCEPT !.kind = "format_buffer"]

\* format_buffer::size, capacity, data, begin, end: offsets are from data()
format_buffer_size(t) == t.size
format_buffer_capacity(t) == t.capacity
format_buffer_data(t) == t.ptr
format_buffer_end(t) == t.size

\* format_buffer::clear -> fmt::detail::buffer::clear
format_buffer_clear(t) == [t EXCEPT !.size = 0]

\* faulty variant: c_str() without the reserve
format_buffer_c_str_no_reserve(t) ==
  Poke(t, format_buffer_data(t), format_buffer_end(t), Nul)

format_buffer_c_str(t) ==
  LET r == IF format_buffer_size(t) = format_buffer_capacity(t)
             THEN try_reserve(t, format_buffer_capacity(t) + 1)
             ELSE t
  IN Poke(r, format_buffer_data(r), format_buffer_end(r), Nul)

\* ------------------------------------------------------------ state
\* tgt       the target
\* inp       the bytes the target should hold had nothing been truncated:
\*           what restore_size kept, then every byte handed to a write since
\* last      the last call: its name and arguments, the number u of bytes it
\*           handed over (for a reserve-and-write call, the number its
\*           writer used), what it returned, and
\*           what size(), has_overflowed(), the bytes at data() and the fmt
\*           buffer's fields were when it was made
\* used      the calls made since construction or the last restore_size
\* restored  whether restore_size has been called, and whether the last such
\*           call found the target overflowed
\* nops      number of calls made
\* twin      a second target given the same writes as tgt, where two targets
\*           are compared
\* lam       a format_lambda_wrapper::execute call in progress: where it is,
\*           the cursor it was given, format_lambda_output::iter, the
\*           cursor it returned, the bytes rendered before it was entered
\*           and what each format_lambda_output::format call rendered
VARIABLES tgt, inp, last, used, restored, nops, twin, lam

vars == <<tgt, inp, last, used, restored, nops, twin, lam>>

NoTwin == <<>>

NoLambda ==
  [pc |-> "idle", start |-> <<>>, iter |-> <<>>, ret |-> <<>>, before |-> <<>>,
   parts |-> <<>>]

NoCall ==
  [op |-> "none", n |-> 0, s |-> <<>>, u |-> 0, ret |-> 0, psize |-> 0,
   pov |-> FALSE, puser |-> <<>>, pbuf |-> <<>>]

Init ==
  /\ tgt \in {format_to_fixed(c) : c \in 0..MaxCap}
             \cup {format_to_fixed_z(c) : c \in 0..MaxCap}
             \cup {format_to_buffer(InlineSize)}
  /\ inp = <<>>
  /\ last = NoCall
  /\ used = {}
  /\ restored = "never"
  /\ nops = 0
  /\ twin = NoTwin
  /\ lam = NoLambda

\* the target as a call finds it
Entry == [tgt EXCEPT !.wr = {}, !.oob = FALSE, !.invoked = FALSE, !.handed = <<>>]

Called(op, n, s, u, ret) ==
  [op |-> op, n |-> n, s |-> s, u |-> u, ret |-> ret, psize |-> size(tgt),
   pov |-> has_overflowed(tgt), puser |-> Region(tgt, data(tgt)),
   pbuf |-> <<tgt.ptr, tgt.size, tgt.capacity, tgt.flags>>]

Write(op, n, s, t2, given) ==
  /\ nops < MaxOps
  /\ tgt' = t2
  /\ inp' = inp \o given
  /\ last' = Called(op, n, s, Len(given), 0)
  /\ used' = used \cup {op}
  /\ nops' = nops + 1
  /\ UNCHANGED <<restored, twin, lam>>

Call_append ==
  \E s \in Strs \cup {LongStr} : Write("append", 0, s, append(Entry, s), s)

Call_push_back ==
  \E c \in Bytes : Write("push_back", 0, <<c>>, push_back(Entry, c), <<c>>)

Call_format ==
  \E s \in Rendered : Write("format", 0, s, format(Entry, s), s)

Call_vformat ==
  \E s \in Rendered : Write("vformat", 0, s, vformat(Entry, s), s)

\* the bytes a writer stored, given the target after the reserve and after
\* the call
Stored(r, t2, w) == IF t2.invoked THEN SubSeq(w, 1, t2.size - r.size) ELSE <<>>

Call_append_ptr_last_func ==
  \E n \in Reserves, f \in PtrWriters :
    LET t2 == append_ptr_last_func(Entry, n, f[1], f[2])
    IN Write("append_ptr_last_func", n, f[1], t2,
             Stored(try_reserve(Entry, Entry.size + n), t2, f[1]))

Call_append_span_func ==
  \E n \in Reserves, w \in WriterBytes :
    LET t2 == append_span_func(Entry, n, w)
    IN Write("append_span_func", n, w, t2,
             Stored(try_reserve(Entry, Entry.size + n), t2, w))

\* restore_size(n) within its contract, n <= size()
Call_restore_size ==
  \E n \in 0..size(tgt) :
    /\ nops < MaxOps
    /\ tgt' = restore_size(Entry, n)
    /\ inp' = SubSeq(Region(tgt, data(tgt)), 1, n)
    /\ last' = Called("restore_size", n, <<>>, 0, 0)
    /\ used' = {}
    /\ restored' = IF has_overflowed(tgt) THEN "from_overflowed" ELSE "from_normal"
    /\ nops' = nops + 1
    /\ UNCHANGED <<twin, lam>>

Call_finalise ==
  /\ tgt.kind = "format_to_fixed_z"
  /\ nops < MaxOps
  /\ tgt' = finalise(Entry)[1]
  /\ last' = Called("finalise", 0, <<>>, 0, finalise(Entry)[2])
  /\ used' = used \cup {"finalise"}
  /\ nops' = nops + 1
  /\ UNCHANGED <<inp, restored, twin, lam>>

Next ==
  \/ Call_append
  \/ Call_push_back
  \/ Call_format
  \/ Call_vformat
  \/ Call_append_ptr_last_func
  \/ Call_append_span_func
  \/ Call_restore_size
  \/ Call_finalise

Spec == Init /\ [][Next]_vars

\* ------------------------------------------------------------ observers
IsFixed == HasFlag(tgt.flags, FL_FIXED)
Capacity == tgt.buffer_size
Plain == {"append", "push_back"}
Guarded == {"format", "vformat", "push_back", "append"}
ReserveAndWrite == {"append_ptr_last_func", "append_span_func"}
\* the fmt buffer's pointer, size and capacity, and the target's flags
Underlying == <<tgt.ptr, tgt.size, tgt.capacity, tgt.flags>>
\* what inp says the caller's region holds
AsWritten ==
  IF Len(inp) <= Capacity
    THEN /\ size(tgt) = Len(inp)
         /\ ~has_overflowed(tgt)
         /\ SubSeq(tgt.user, 1, size(tgt)) = inp
    ELSE /\ size(tgt) = Capacity
         /\ has_overflowed(tgt)
         /\ SubSeq(tgt.user, 1, Capacity) = SubSeq(inp, 1, Capacity)

\* C1: a fixed target that was only appended and pushed to, at most its
\* capacity in all, has size() equal to the number of bytes given, is not
\* overflowed, and holds at the start of the caller's region exactly those bytes.
C1_WithinCapacity ==
  (IsFixed /\ restored = "never" /\ used \subseteq Plain /\ Len(inp) <= Capacity)
    => /\ size(tgt) = Len(inp)
       /\ ~has_overflowed(tgt)
       /\ SubSeq(tgt.user, 1, size(tgt)) = inp

\* two or more calls that fill the region exactly
C1_Witness ==
  /\ IsFixed /\ restored = "never" /\ used = Plain
  /\ Capacity >= 2 /\ Len(inp) = Capacity
  /\ last.psize > 0 /\ last.s # <<>>

\* C2: a fixed target that was only appended and pushed to, more than its
\* capacity in all, has size() equal to its capacity, is overflowed, and the
\* caller's region holds the first capacity bytes given.
C2_BeyondCapacity ==
  (IsFixed /\ restored = "never" /\ used \subseteq Plain /\ Len(inp) > Capacity)
    => /\ size(tgt) = Capacity
       /\ has_overflowed(tgt)
       /\ SubSeq(tgt.user, 1, Capacity) = SubSeq(inp, 1, Capacity)

\* an append that starts inside the region and ends beyond it
C2_Witness ==
  /\ IsFixed /\ restored = "never" /\ used \subseteq Plain
  /\ last.op = "append" /\ ~last.pov
  /\ 0 < last.psize /\ last.psize < Capacity
  /\ last.psize + Len(last.s) > Capacity
  /\ has_overflowed(tgt)

\* C3: a format, vformat, push_back or append call on an overflowed fixed
\* target leaves size() and the caller's region as they were.
C3_OverflowedWritesChangeNothing ==
  (IsFixed /\ last.op \in Guarded /\ last.pov)
    => /\ size(tgt) = last.psize
       /\ tgt.user = last.puser

C3_Witness ==
  /\ IsFixed /\ last.op \in Guarded /\ last.pov /\ last.s # <<>>
  /\ Capacity > 0

\* C4: once has_overflowed() is true every write call, the two
\* reserve-and-write calls included, is skipped: the writer is not run and
\* neither the fmt buffer's pointer, size and capacity nor the flags change.
C4_OverflowedSkipsEveryWrite ==
  (IsFixed /\ last.op \in Guarded \cup ReserveAndWrite /\ last.pov)
    => /\ ~tgt.invoked
       /\ Underlying = last.pbuf

\* a call on an overflowed target whose writer was run on the discard region
C4_WriterRunWhileOverflowed ==
  /\ IsFixed /\ last.op \in ReserveAndWrite /\ last.pov
  /\ tgt.invoked /\ tgt.ptr = "discard"

\* C5: restore_size(n) with n <= size() on a fixed target, overflowed or
\* not, makes size() equal n and has_overflowed() false, and the appends and
\* push_backs that follow land from offset n on as they do on a target that
\* never overflowed: the kept bytes followed by the bytes given, cut at capacity.
C5_RestoreSize ==
  /\ (IsFixed /\ last.op = "restore_size")
       => /\ size(tgt) = last.n
          /\ ~has_overflowed(tgt)
  /\ (IsFixed /\ restored # "never" /\ used \subseteq Plain) => AsWritten

\* restore_size on an overflowed target to inside a non-empty kept part,
\* then an append that lands
C5_Witness ==
  /\ IsFixed /\ restored = "from_overflowed" /\ used = {"append"}
  /\ last.op = "append" /\ last.psize > 0 /\ last.s # <<>>
  /\ size(tgt) > last.psize

\* C6 as stated: finalise() stores its terminator at an offset strictly less
\* than last - dst.
C6_TerminatorBeforeLast ==
  (tgt.kind = "format_to_fixed_z" /\ last.op = "finalise")
    => last.ret < Capacity

\* C6 as amended: finalise() stores its terminator at an offset of at most
\* last - dst, inside the caller's region dst .. last with last included.
C6_TerminatorUpToLast ==
  (tgt.kind = "format_to_fixed_z" /\ last.op = "finalise")
    => /\ last.ret <= Capacity
       /\ last.ret < Len(tgt.user)
       /\ tgt.wr = {<<"user", last.ret>>}
       /\ ~tgt.oob

\* finalise on an overflowed target: the terminator is stored at last
C6_Witness ==
  /\ tgt.kind = "format_to_fixed_z" /\ last.op = "finalise" /\ last.pov
  /\ Capacity > 0 /\ last.ret = Capacity
  /\ tgt.user[Capacity + 1] = Nul

\* C7: finalise() on a format_to_fixed_z holding k <= capacity bytes stores
\* a terminator at offset k, returns dst + k, and leaves bytes 0 .. k-1 and
\* size() as they were.
C7_Finalise ==
  (tgt.kind = "format_to_fixed_z" /\ last.op = "finalise" /\ ~last.pov)
    => /\ last.psize < Len(tgt.user)
       /\ tgt.user[last.psize + 1] = Nul
       /\ last.ret = last.psize
       /\ SubSeq(tgt.user, 1, last.psize) = SubSeq(last.puser, 1, last.psize)
       /\ size(tgt) = last.psize

C7_Witness ==
  /\ tgt.kind = "format_to_fixed_z" /\ last.op = "finalise" /\ ~last.pov
  /\ last.psize = 2 /\ SubSeq(tgt.user, 1, 3) = <<1, 2, Nul>>

\* C8: no append, push_back, format, vformat, append_ptr_last_func,
\* append_span_func or restore_size call on a fixed target stores to the
\* caller's region at an offset of capacity or more: every store is below
\* capacity in the caller's region or inside the discard region.
C8_StoresInBounds ==
  (IsFixed /\ last.op \in Guarded \cup ReserveAndWrite \cup {"restore_size"})
    => /\ \A w \in tgt.wr :
            \/ w[1] = "user" /\ w[2] >= 0 /\ w[2] < Capacity
            \/ w[1] = "discard" /\ w[2] >= 0 /\ w[2] < DiscardSize
       /\ ~tgt.oob

\* one append that fills the caller's region, then the whole discard region,
\* and goes on
C8_Witness ==
  /\ IsFixed /\ last.op = "append" /\ Capacity > 0 /\ last.psize < Capacity
  /\ <<"user", Capacity - 1>> \in tgt.wr
  /\ <<"discard", DiscardSize - 1>> \in tgt.wr
  /\ tgt.size < DiscardSize

\* C9: on a fixed target size() is never more than the capacity, and is the
\* capacity whenever has_overflowed() is true.
C9_SizeWithinCapacity ==
  IsFixed => /\ size(tgt) <= Capacity
             /\ has_overflowed(tgt) => size(tgt) = Capacity

\* overflowed with more bytes attempted than fit, and a discard region whose
\* fill level is not the capacity
C9_Witness ==
  /\ IsFixed /\ has_overflowed(tgt)
  /\ Len(inp) > Capacity /\ tgt.size # Capacity /\ tgt.size > 0

\* C10: a target without FL_FIXED never has has_overflowed() true.
C10_GrowableNeverOverflows ==
  ~HasFlag(tgt.flags, FL_FIXED) => ~has_overflowed(tgt)

\* a growable target that two kinds of call have written to beyond its first capacity
C10_Witness ==
  /\ ~HasFlag(tgt.flags, FL_FIXED) /\ tgt.capacity > InlineSize
  /\ tgt.size > InlineSize /\ Cardinality(used) >= 2

\* C11: on a fixed target has_overflowed(), once true, is still true after
\* every call that is not restore_size (size() and data() change nothing):
\* only restore_size clears it.
C11_OverflowSticky ==
  (IsFixed /\ last.pov /\ last.op # "restore_size") => has_overflowed(tgt)

\* a reserve-and-write call that ran its writer on an overflowed target
C11_Witness ==
  /\ IsFixed /\ last.pov /\ last.op \in ReserveAndWrite /\ tgt.invoked
  /\ tgt.size # last.pbuf[2]
  /\ has_overflowed(tgt)

\* ------------------------------------------------- growable targets alone
InitBuf ==
  /\ tgt \in {format_to_buffer(InlineSize), format_buffer(InlineSize)}
  /\ inp = <<>>
  /\ last = NoCall
  /\ used = {}
  /\ restored = "never"
  /\ nops = 0
  /\ twin = NoTwin
  /\ lam = NoLambda

Call_c_str ==
  /\ tgt.kind = "format_buffer"
  /\ nops < MaxOps
  /\ tgt' = format_buffer_c_str(Entry)
  /\ last' = Called("c_str", 0, <<>>, 0, 0)
  /\ used' = used \cup {"c_str"}
  /\ nops' = nops + 1
  /\ UNCHANGED <<inp, restored, twin, lam>>

Call_clear ==
  /\ tgt.kind = "format_buffer"
  /\ nops < MaxOps
  /\ tgt' = format_buffer_clear(Entry)
  /\ inp' = <<>>
  /\ last' = Called("clear", 0, <<>>, 0, 0)
  /\ used' = {}
  /\ restored' = "cleared"
  /\ nops' = nops + 1
  /\ UNCHANGED <<twin, lam>>

NextBuf ==
  \/ Call_append
  \/ Call_push_back
  \/ Call_format
  \/ Call_vformat
  \/ Call_restore_size
  \/ Call_c_str
  \/ Call_clear

SpecBuf == InitBuf /\ [][NextBuf]_vars

Writes == {"append", "push_back", "format", "vformat"}
\* bytes 0 .. size()-1 at data()
Contents == SubSeq(Region(tgt, data(tgt)), 1, size(tgt))

\* C12: a growable target that was only appended to, pushed to and formatted
\* into has size() equal to the number of bytes given and holds exactly
\* those bytes.
C12_GrowableExact ==
  (~IsFixed /\ restored = "never" /\ used \subseteq Writes)
    => /\ size(tgt) = Len(inp)
       /\ Contents = inp

\* three kinds of write, more bytes than the discard region of a fixed
\* target and the first capacity together
C12_Witness ==
  /\ ~IsFixed /\ restored = "never" /\ used = {"append", "push_back", "format"}
  /\ Len(inp) > DiscardSize + InlineSize
  /\ tgt.capacity > InlineSize

\* ------------------------------------- a fixed and a growable target in step
InitPair ==
  /\ tgt \in {format_to_fixed(c) : c \in 0..(MaxCap + MaxLen)}
             \cup {format_to_fixed_z(c) : c \in 0..(MaxCap + MaxLen)}
  /\ twin = format_to_buffer(InlineSize)
  /\ inp = <<>>
  /\ last = NoCall
  /\ used = {}
  /\ restored = "never"
  /\ nops = 0
  /\ lam = NoLambda

TwinEntry ==
  [twin EXCEPT !.wr = {}, !.oob = FALSE, !.invoked = FALSE, !.handed = <<>>]

\* the same write made on both targets
PairWrite(op, s, t2, w2) ==
  /\ nops < MaxOps
  /\ tgt' = t2
  /\ twin' = w2
  /\ inp' = inp \o s
  /\ last' = Called(op, 0, s, Len(s), 0)
  /\ used' = used \cup {op}
  /\ nops' = nops + 1
  /\ UNCHANGED <<restored, lam>>

Pair_append ==
  \E s \in Strs \cup {LongStr} :
    PairWrite("append", s, append(Entry, s), append(TwinEntry, s))

Pair_push_back ==
  \E c \in Bytes :
    PairWrite("push_back", <<c>>, push_back(Entry, c), push_back(TwinEntry, c))

Pair_format ==
  \E s \in Rendered :
    PairWrite("format", s, format(Entry, s), format(TwinEntry, s))

Pair_vformat ==
  \E s \in Rendered :
    PairWrite("vformat", s, vformat(Entry, s), vformat(TwinEntry, s))

NextPair ==
  \/ Pair_append
  \/ Pair_push_back
  \/ Pair_format
  \/ Pair_vformat

SpecPair == InitPair /\ [][NextPair]_vars

\* bytes 0 .. size()-1 at data() of target t
ContentsOf(t) == SubSeq(Region(t, data(t)), 1, size(t))

\* C13: while the writes made so far on a growable and on a fixed target
\* amount to no more than the fixed target's capacity, the two have the same
\* size() and the same bytes, and the fixed target is not overflowed.
C13_FixedMatchesGrowable ==
  Len(inp) <= Capacity
    => /\ size(tgt) = size(twin)
       /\ ContentsOf(tgt) = ContentsOf(twin)
       /\ ~has_overflowed(tgt)

\* three writes of different kinds that fill the fixed target exactly, after
\* the growable one has grown
C13_Witness ==
  /\ nops = 3 /\ Cardinality(used) = 3 /\ "format" \in used
  /\ Len(inp) = Capacity /\ size(tgt) = Capacity
  /\ twin.capacity > InlineSize

\* C14: format_buffer::c_str() leaves size() and bytes 0 .. size()-1 as they
\* were and stores a terminator at offset size(), which is below the
\* capacity and inside the buffer's storage; the terminator never becomes
\* part of the bytes held, whatever c_str calls and writes follow.
C14_CStr ==
  /\ (tgt.kind = "format_buffer" /\ last.op = "c_str")
       => /\ format_buffer_size(tgt) = last.psize
          /\ Contents = SubSeq(last.puser, 1, last.psize)
          /\ format_buffer_size(tgt) < format_buffer_capacity(tgt)
          /\ format_buffer_capacity(tgt) <= Len(tgt.heap)
          /\ tgt.heap[format_buffer_size(tgt) + 1] = Nul
          /\ tgt.wr = {<<"heap", format_buffer_size(tgt)>>}
          /\ ~tgt.oob
  /\ (tgt.kind = "format_buffer" /\ restored = "never"
        /\ used \subseteq Writes \cup {"c_str"})
       => /\ format_buffer_size(tgt) = Len(inp)
          /\ Contents = inp

\* c_str() on a full buffer, which reserves first
C14_Witness ==
  /\ tgt.kind = "format_buffer" /\ last.op = "c_str"
  /\ last.psize > 0 /\ last.psize = last.pbuf[3]
  /\ tgt.capacity > last.pbuf[3]

\* a write made after c_str()
C14_WitnessOverwritten ==
  /\ tgt.kind = "format_buffer" /\ restored = "never"
  /\ "c_str" \in used /\ last.op \in Writes /\ last.s # <<>> /\ last.psize > 0

\* C15: a reserve-and-write call on a fixed target that is not overflowed,
\* whose writer uses no more bytes than remain below the capacity, advances
\* size() by the bytes used and leaves has_overflowed() false, whatever
\* to_reserve is.
C15_ReserveNeverOverflows ==
  (IsFixed /\ last.op \in ReserveAndWrite /\ ~last.pov
     /\ last.u <= Capacity - last.psize)
    => /\ size(tgt) = last.psize + last.u
       /\ ~has_overflowed(tgt)

\* the same, for the calls made with room left or with to_reserve = 0
C15_ReserveWithRoomLeft ==
  (IsFixed /\ last.op \in ReserveAndWrite /\ ~last.pov
     /\ last.u <= Capacity - last.psize
     /\ (last.psize < Capacity \/ last.n = 0))
    => /\ size(tgt) = last.psize + last.u
       /\ ~has_overflowed(tgt)

\* a full target that a reserve-and-write call overflowed though its writer
\* used no byte
C15_OverflowedWithoutWrite ==
  /\ IsFixed /\ last.op \in ReserveAndWrite /\ ~last.pov
  /\ last.psize = Capacity /\ Capacity > 0 /\ last.n > 0 /\ last.u = 0
  /\ has_overflowed(tgt)

\* C16: what a reserve-and-write call hands its writer lies inside the
\* buffer's storage as it is after the reserve.  append_span_func hands the
\* span from size to capacity and runs no writer when size = capacity;
\* append_ptr_last_func hands buf at size and last at capacity - 1, runs the
\* writer only when last > buf, and ends with a size of at most capacity - 1.
C16_HandedRegion ==
  LET cap == tgt.capacity
      sz == tgt.size - last.u
  IN /\ last.op = "append_span_func"
          => IF tgt.invoked
               THEN /\ tgt.handed = <<sz, cap - sz>>
                    /\ sz < cap
                    /\ cap <= Len(Region(tgt, tgt.ptr))
                    /\ tgt.size <= cap
                    /\ ~tgt.oob
               ELSE tgt.size = cap
     /\ last.op = "append_ptr_last_func"
          => IF tgt.invoked
               THEN /\ tgt.handed = <<sz, cap - 1>>
                    /\ cap - 1 > sz
                    /\ cap <= Len(Region(tgt, tgt.ptr))
                    /\ tgt.size <= cap - 1
                    /\ ~tgt.oob
               ELSE cap - 1 <= tgt.size

\* a span handed out of the discard region, to which the reserve moved a
\* full fixed target
C16_Witness ==
  /\ last.op = "append_span_func" /\ tgt.invoked /\ ~last.pov
  /\ last.psize = Capacity /\ Capacity > 0
  /\ tgt.ptr = "discard" /\ tgt.handed = <<0, DiscardSize>> /\ last.u > 0

\* a writer that stored up to last in the caller's region
C16_WitnessPtrLast ==
  /\ IsFixed /\ last.op = "append_ptr_last_func" /\ tgt.invoked
  /\ tgt.ptr = "user" /\ tgt.size = tgt.capacity - 1
  /\ <<"user", tgt.capacity - 1>> \in tgt.wr

\* what a caller reads between begin() and end()
Observed == SubSeq(Region(tgt, begin(tgt)[1]), 1, end(tgt)[2] - begin(tgt)[2])

\* C17: for a fixed target data() and begin() are the start of the caller's
\* region, end() - begin() = size() <= C, overflowed or not, and what lies
\* between begin() and end() is the caller's region, never the discard region.
C17_FixedObservers ==
  IsFixed =>
    /\ data(tgt) = "user"
    /\ begin(tgt) = <<"user", 0>>
    /\ end(tgt)[1] = begin(tgt)[1]
    /\ end(tgt)[2] - begin(tgt)[2] = size(tgt)
    /\ size(tgt) <= Capacity
    /\ Capacity <= Len(tgt.user)
    /\ Observed = SubSeq(tgt.user, 1, size(tgt))
    /\ Observed = SubSeq(inp, 1, size(tgt))

\* overflowed, the buffer's cursor inside a discard region that holds bytes
C17_Witness ==
  /\ IsFixed /\ has_overflowed(tgt) /\ Capacity > 0
  /\ tgt.ptr = "discard" /\ tgt.size > 0 /\ tgt.size # size(tgt)
  /\ tgt.discard # Blank(DiscardSize)
  /\ size(tgt) = Capacity

\* ------------------------------------------------------------ format_lambda
\* A fmt::format_context::iterator is a cursor: pos is the number of bytes
\* put through the buffer it appends to.

\* fmt::format_to on a cursor: appends what the template renders to and
\* returns the cursor past it
format_to(t, iter, s) == <<vformat_to(t, s), [pos |-> iter.pos + Len(s)]>>

format_lambda_output(iter) == [iter |-> iter]

\* faulty variant: format() dropping the cursor format_to returns
format_lambda_output_format_dropped(t, out, s) ==
  <<format_to(t, out.iter, s)[1], out>>

format_lambda_output_format(t, out, s) ==
  LET r == format_to(t, out.iter, s)
  IN <<r[1], [out EXCEPT !.iter = r[2]]>>

\* format_target::format of a template made of literal text, one
\* format_lambda argument and more literal text: up to the point where
\* fmt::formatter<format_lambda_wrapper>::format calls execute(ctx.out())
Lambda_format ==
  /\ lam.pc = "idle"
  /\ nops < MaxOps
  /\ nops' = nops + 1
  /\ used' = used \cup {"format"}
  /\ UNCHANGED <<restored, twin>>
  /\ IF has_overflowed(tgt)
       THEN /\ tgt' = Entry
            /\ last' = Called("format", 0, <<>>, 0, 0)
            /\ UNCHANGED <<inp, lam>>
       ELSE \E s \in Strs :
              LET output == format_lambda_output([pos |-> Len(inp) + Len(s)])
              IN /\ tgt' = vformat_to(Entry, s)
                 /\ inp' = inp \o s
                 /\ last' = Called("format", 0, s, Len(s), 0)
                 /\ lam' = [pc |-> "callback", start |-> output.iter,
                            iter |-> output.iter, ret |-> <<>>,
                            before |-> inp \o s, parts |-> <<>>]

\* the callback calls format_lambda_output::format
Output_format ==
  /\ lam.pc = "callback"
  /\ Len(lam.parts) < MaxNested
  /\ \E s \in Rendered :
       LET r == format_lambda_output_format(Entry, format_lambda_output(lam.iter), s)
       IN /\ tgt' = r[1]
          /\ lam' = [lam EXCEPT !.iter = r[2].iter, !.parts = Append(@, s)]
          /\ inp' = inp \o s
          /\ last' = Called("format_lambda_output::format", 0, s, Len(s), 0)
  /\ UNCHANGED <<used, restored, nops, twin>>

\* the callback returns and execute returns output.iter
Execute_return ==
  /\ lam.pc = "callback"
  /\ lam' = [lam EXCEPT !.pc = "returned", !.ret = lam.iter]
  /\ UNCHANGED <<tgt, inp, last, used, restored, nops, twin>>

\* the rest of the template is rendered from the cursor execute returned
Format_end ==
  /\ lam.pc = "returned"
  /\ \E s \in Strs :
       /\ tgt' = format_to(tgt, lam.ret, s)[1]
       /\ inp' = inp \o s
  /\ lam' = [lam EXCEPT !.pc = "idle"]
  /\ UNCHANGED <<last, used, restored, nops, twin>>

InitLambda ==
  /\ tgt \in {format_to_fixed(c) : c \in 0..MaxCap}
             \cup {format_to_buffer(InlineSize)}
  /\ inp = <<>>
  /\ last = NoCall
  /\ used = {}
  /\ restored = "never"
  /\ nops = 0
  /\ twin = NoTwin
  /\ lam = NoLambda

NextLambda ==
  \/ Lambda_format
  \/ Output_format
  \/ Execute_return
  \/ Format_end

SpecLambda == InitLambda /\ [][NextLambda]_vars

RECURSIVE Flat(_)
Flat(ss) == IF ss = <<>> THEN <<>> ELSE Head(ss) \o Flat(Tail(ss))

\* what the target shows of the bytes rendered so far
Shown ==
  IF IsFixed THEN Contents = SubSeq(inp, 1, Min(Capacity, Len(inp)))
  ELSE Contents = inp

\* C18: inside the callback every format_lambda_output::format starts at the
\* cursor the one before left, so what they render follows what was rendered
\* before the callback, in call order and with nothing between; execute
\* returns the cursor past the last of them, the cursor it was given when
\* there was none; and a nested format on an overflowed target is not
\* skipped: its bytes are stored, to the discard region.
C18_LambdaCursor ==
  /\ lam.pc = "callback"
       => /\ lam.iter.pos = lam.start.pos + Len(Flat(lam.parts))
          /\ lam.iter.pos = Len(inp)
          /\ inp = lam.before \o Flat(lam.parts)
          /\ Shown
  /\ lam.pc = "returned"
       => /\ lam.ret = lam.iter
          /\ lam.ret.pos = lam.start.pos + Len(Flat(lam.parts))
          /\ lam.ret.pos = Len(inp)
          /\ lam.parts = <<>> => lam.ret = lam.start
          /\ inp = lam.before \o Flat(lam.parts)
          /\ Shown
  /\ (lam.pc = "callback" /\ last.op = "format_lambda_output::format" /\ last.pov)
       => /\ tgt.wr # {}
          /\ \A w \in tgt.wr : w[1] = "discard"

\* two nested calls, the second made on a target the first had overflowed
C18_Witness ==
  /\ lam.pc = "returned" /\ Len(lam.parts) = 2
  /\ IsFixed /\ Capacity > 0 /\ last.pov /\ Len(lam.before) > 0
  /\ last.op = "format_lambda_output::format"
  /\ lam.ret.pos > Capacity

\* a callback that rendered nothing
C18_WitnessNoWrites ==
  /\ lam.pc = "returned" /\ lam.parts = <<>> /\ lam.ret = lam.start
  /\ lam.start.pos > 0

====
